---- MODULE Spec2Model ----
(***************************************************************************)
(* A model of pyext2: the Ext2Disk facade (ext2/disk/disk.py), the         *)
(* directory entry list and directory object (ext2/file/directory.py) and  *)
(* the image device (ext2/fs/device.py).                                   *)
(*                                                                         *)
(* Bytes are naturals 0..255, byte strings are sequences of bytes, a name  *)
(* or a path is the sequence of its character codes.  The device is a      *)
(* function from block id to a block of blockSize bytes; the inode table   *)
(* is kept parsed (one record per inode number).                           *)
(***************************************************************************)
EXTENDS Integers, Sequences, FiniteSets, TLC

VARIABLES
  imageFile,     \* Ext2Disk._imageFile / _DeviceFromFile._imageFile: "None" or "open"
  isValid,       \* Ext2Disk._isValid
  rootDir,       \* Ext2Disk._rootDir: NoObject until a mount has set it
  lifecycle,     \* the last lifecycle call and how it ended
  blocks,        \* device: block id -> bytes of the block
  inodes,        \* device: inode number -> inode record
  usedInodes,    \* inode bitmap: the inode numbers marked used
  usedBlocks,    \* block bitmap: the block ids marked used
  last           \* the last call made by the client and its outcome

vars == <<imageFile, isValid, rootDir, lifecycle, blocks, inodes,
          usedInodes, usedBlocks, last>>

----------------------------------------------------------------------------
(* Bounds of the model *)

BlockWords == 12      \* blockSize in 4-byte words
NumBlocks == 6        \* block ids 0..NumBlocks-1
NumInodes == 5        \* inode numbers 1..NumInodes
MaxPathLen == 3       \* longest path or name handed to an operation

(* Program constants *)

Slash == 47           \* "/"
Dot == 46             \* "."
Space == 32           \* " "
Letters == <<97, 98>>  \* "a" and "b", the letters of the file names used
ChA == Letters[1]
ChB == Letters[2]
RootInode == 2
FirstInode == 3       \* superblock.firstInode: first inode not reserved
MaxNameLen == 255
EntryBase == 11       \* 7 bytes of record base + 4 bytes of alignment
DirMode == 16877      \* 0x41ED, the mode makeDirectory builds

blockSize == 4 * BlockWords

----------------------------------------------------------------------------
(* Byte strings: struct.pack / struct.unpack_from, little endian *)

RECURSIVE Pow(_, _)
Pow(b, e) == IF e = 0 THEN 1 ELSE b * Pow(b, e - 1)

\* pack("<I"/"<H"/"<B", n): the k bytes of n, least significant first
PackLE(n, k) == [i \in 1..k |-> (n \div Pow(256, i - 1)) % 256]

\* the k-byte little-endian number at (0-based) offset off of bs
RECURSIVE UnpackLE(_, _, _)
UnpackLE(bs, off, k) ==
  IF k = 0 THEN 0 ELSE bs[off + 1] + 256 * UnpackLE(bs, off + 1, k - 1)

Zeros(n) == [i \in 1..n |-> 0]

\* bs[off:] of Python
SliceFrom(bs, off) ==
  IF off >= Len(bs) THEN <<>> ELSE [i \in 1..(Len(bs) - off) |-> bs[off + i]]

\* bs[:n] of Python (0 <= n)
SliceTo(bs, n) ==
  IF n >= Len(bs) THEN bs ELSE [i \in 1..n |-> bs[i]]

\* pack("<IHBB{n}s", inodeNum, entrySize, nameLength, 0, name)
PackEntry(inodeNum, entrySize, name) ==
  PackLE(inodeNum, 4) \o PackLE(entrySize, 2) \o PackLE(Len(name), 1) \o <<0>> \o name

\* pack("<IHBB1s3xIHBB2s", inodeNum, 12, 1, 0, ".", parentNum, 12, 2, 0, "..")
PackDefaultEntries(inodeNum, parentNum) ==
  PackLE(inodeNum, 4) \o PackLE(12, 2) \o <<1, 0, Dot>> \o Zeros(3) \o
  PackLE(parentNum, 4) \o PackLE(12, 2) \o <<2, 0, Dot, Dot>>

----------------------------------------------------------------------------
(* Bit operations on modes *)

RECURSIVE BitAnd(_, _)
BitAnd(a, b) ==
  IF a = 0 \/ b = 0 THEN 0
  ELSE (a % 2) * (b % 2) + 2 * BitAnd(a \div 2, b \div 2)

----------------------------------------------------------------------------
(* The device and the inode engine *)

\* The filesystem as the operations see it: the facade's device handle, the
\* bytes behind it, and the log of the writes the running operation has made.
ThisFs ==
  [open |-> imageFile = "open", blocks |-> blocks, inodes |-> inodes,
   usedInodes |-> usedInodes, usedBlocks |-> usedBlocks, log |-> <<>>]

\* _DeviceFromFile.isMounted
isMounted(fs) == fs.open

\* Inode.lookupBlockId(i): the i-th logical block's id, 0 for a hole
lookupBlockId(inode, i) ==
  IF i < Len(inode.block) THEN inode.block[i + 1] ELSE 0

\* File.numBlocks: blocks covered by the inode's size
numBlocks(inode) == (inode.size + blockSize - 1) \div blockSize

\* Ext2Disk._readBlock
readBlock(fs, blockId) ==
  IF ~isMounted(fs) THEN [status |-> "AssertionError", bytes |-> <<>>]
  ELSE IF blockId \notin DOMAIN fs.blocks
         THEN [status |-> "Exception", bytes |-> <<>>]
         ELSE [status |-> "ok", bytes |-> fs.blocks[blockId]]

\* Ext2Disk._readInode, one block group of NumInodes inodes.  Python's
\* floor division and modulo, and its negative list index, are kept.
NoInode == [mode |-> 0, size |-> 0, block |-> <<>>, numLinks |-> 0]

readInode(fs, inodeNum) ==
  LET bgroupNum == (inodeNum - 1) \div NumInodes
      bgroupIndex == (inodeNum - 1) % NumInodes
  IN  IF bgroupNum \notin {-1, 0}
        THEN [status |-> "IndexError", num |-> inodeNum, inode |-> NoInode]
      ELSE IF ~isMounted(fs)
        THEN [status |-> "AssertionError", num |-> inodeNum, inode |-> NoInode]
      ELSE [status |-> "ok", num |-> inodeNum,
            inode |-> fs.inodes[bgroupIndex + 1]]

----------------------------------------------------------------------------
(* _Entry and _EntryList *)

NoEntry ==
  [name |-> <<>>, inodeNum |-> 0, size |-> 0, bindex |-> 0, bid |-> 0,
   offset |-> 0]

\* _Entry.__init__: unpack_from("<IHB", byteString) needs 7 bytes, the name
\* needs nameLength bytes from offset 8.
Entry(blockIndex, blockId, blockOffset, byteString) ==
  IF Len(byteString) < 7 THEN [ok |-> FALSE, e |-> NoEntry]
  ELSE IF Len(byteString) - 8 < byteString[7] THEN [ok |-> FALSE, e |-> NoEntry]
  ELSE [ok |-> TRUE,
        e |-> [name |-> [i \in 1..byteString[7] |-> byteString[8 + i]],
               inodeNum |-> UnpackLE(byteString, 0, 4),
               size |-> UnpackLE(byteString, 4, 2),
               bindex |-> blockIndex, bid |-> blockId, offset |-> blockOffset]]

\* The while loop of _EntryList.__init__ over one block.  An entry with
\* inodeNum # 0 and size 0 never advances the offset: the loop does not end.
RECURSIVE ScanBlock(_, _, _, _, _)
ScanBlock(blockBytes, i, blockId, offset, acc) ==
  LET Parsed(r) ==
        IF ~r.ok THEN [status |-> "struct.error", entries |-> acc]
        ELSE IF r.e.inodeNum = 0 THEN [status |-> "ok", entries |-> acc]
        ELSE IF r.e.size = 0 THEN [status |-> "hang", entries |-> acc]
        ELSE ScanBlock(blockBytes, i, blockId, offset + r.e.size, Append(acc, r.e))
  IN  IF ~(offset < blockSize) THEN [status |-> "ok", entries |-> acc]
      ELSE Parsed(Entry(i, blockId, offset, SliceFrom(blockBytes, offset)))

\* The for loop of _EntryList.__init__ over the directory's blocks
RECURSIVE ScanBlocks(_, _, _, _)
ScanBlocks(fs, inode, i, acc) ==
  LET Scanned(s) ==
        IF s.status # "ok" THEN s ELSE ScanBlocks(fs, inode, i + 1, s.entries)
      Read(blockId, b) ==
        IF b.status # "ok" THEN [status |-> b.status, entries |-> acc]
        ELSE Scanned(ScanBlock(b.bytes, i, blockId, 0, acc))
      Block(blockId) ==
        IF blockId = 0 THEN [status |-> "ok", entries |-> acc]
        ELSE Read(blockId, readBlock(fs, blockId))
  IN  IF ~(i < numBlocks(inode)) THEN [status |-> "ok", entries |-> acc]
      ELSE Block(lookupBlockId(inode, i))

EntryList(fs, inode) == ScanBlocks(fs, inode, 0, <<>>)

----------------------------------------------------------------------------
(* File objects *)

NoObject ==
  [status |-> "None", name |-> <<>>, inodeNum |-> 0, kind |-> "None",
   isDir |-> FALSE, entries |-> <<>>]

NoFile(status) == [NoObject EXCEPT !.status = status]

\* The subclass Ext2Directory._openEntry picks for an inode mode
OpenKind(mode) ==
  IF BitAnd(mode, 16384) # 0 THEN "Directory"
  ELSE IF BitAnd(mode, 32768) # 0 THEN "Regular"
  ELSE IF BitAnd(mode, 40960) # 0 THEN "Symlink"
  ELSE "Other"

\* Ext2Directory._openEntry(dirEntry, fs) for the entry (name, inodeNum);
\* a Directory builds its _EntryList from the device as it is constructed.
openEntry(fs, name, inodeNum) ==
  LET Listed(kind, el) ==
        IF el.status # "ok" THEN NoFile(el.status)
        ELSE [status |-> "ok", name |-> name, inodeNum |-> inodeNum,
              kind |-> kind, isDir |-> TRUE, entries |-> el.entries]
      Made(r, kind) ==
        IF kind # "Directory"
          THEN [status |-> "ok", name |-> name, inodeNum |-> inodeNum,
                kind |-> kind, isDir |-> FALSE, entries |-> <<>>]
          ELSE Listed(kind, EntryList(fs, r.inode))
      Read(r) ==
        IF r.status # "ok" THEN NoFile(r.status)
        ELSE Made(r, OpenKind(r.inode.mode))
  IN  Read(readInode(fs, inodeNum))

\* _openRootDirectory(fs): the root has no entry, its name is empty
openRootDirectory(fs) == openEntry(fs, <<>>, RootInode)

----------------------------------------------------------------------------
(* Path resolution *)

\* re.compile("/+").split(path): the parts between maximal runs of "/"
RECURSIVE SplitAt(_, _, _, _)
SplitAt(path, i, cur, acc) ==
  IF i > Len(path) THEN Append(acc, cur)
  ELSE IF path[i] = Slash
    THEN IF i > 1 /\ path[i - 1] = Slash THEN SplitAt(path, i + 1, cur, acc)
         ELSE SplitAt(path, i + 1, <<>>, Append(acc, cur))
  ELSE SplitAt(path, i + 1, Append(cur, path[i]), acc)

Split(path) == SplitAt(path, 1, <<>>, <<>>)

DelFirst(parts) == Tail(parts)
DelLast(parts) == SubSeq(parts, 1, Len(parts) - 1)

\* if len(pathParts) > 1 and pathParts[0] == "": del pathParts[0]
DropLeadingEmpty(parts) ==
  IF Len(parts) > 1 /\ parts[1] = <<>> THEN DelFirst(parts) ELSE parts

\* path parts that keep their trailing empty part
KeepTrailingEmpty(parts) == parts

\* if len(pathParts) > 1 and pathParts[-1] == "": del pathParts[-1]
DropTrailingEmpty(parts) ==
  IF Len(parts) > 1 /\ parts[Len(parts)] = <<>> THEN DelLast(parts) ELSE parts

\* index of the first entry named name, 0 when there is none
RECURSIVE FirstNamed(_, _, _)
FirstNamed(entries, name, j) ==
  IF j > Len(entries) THEN 0
  ELSE IF entries[j].name = name THEN j
  ELSE FirstNamed(entries, name, j + 1)

Found(status, file) == [status |-> status, file |-> file]

\* The for loop of Ext2Directory.getFileAt over the path parts
RECURSIVE WalkFileAt(_, _, _, _)
WalkFileAt(fs, curFile, pathParts, k) ==
  LET Opened(f) ==
        IF f.status # "ok" THEN Found(f.status, NoObject)
        ELSE WalkFileAt(fs, f, pathParts, k + 1)
      Match(j) ==
        IF j = 0 THEN WalkFileAt(fs, curFile, pathParts, k + 1)
        ELSE Opened(openEntry(fs, curFile.entries[j].name,
                              curFile.entries[j].inodeNum))
  IN  IF k > Len(pathParts) THEN Found("ok", curFile)
      ELSE Match(IF curFile.isDir
                   THEN FirstNamed(curFile.entries, pathParts[k], 1) ELSE 0)

\* The path parts Ext2Directory.getFileAt walks
FileAtParts(relativePath) ==
  DropTrailingEmpty(DropLeadingEmpty(Split(relativePath)))

\* Ext2Directory.getFileAt(relativePath) on the directory object self
getFileAt(fs, self, relativePath) ==
  LET Walked(pathParts, w) ==
        IF w.status # "ok" THEN w
        ELSE IF pathParts[Len(pathParts)] # <<>>
                /\ pathParts[Len(pathParts)] # w.file.name
          THEN Found("FileNotFoundError", NoObject)
        ELSE w
      Walk(pathParts) ==
        IF Len(pathParts) = 0 THEN Found("FileNotFoundError", NoObject)
        ELSE Walked(pathParts, WalkFileAt(fs, self, pathParts, 1))
  IN  Walk(FileAtParts(relativePath))

\* for f in fileObject.listContents(): if f.name == localPath: ...  opens
\* the entries in order up to the first one with that name
RECURSIVE ListUntilNamed(_, _, _, _)
ListUntilNamed(fs, entries, localPath, j) ==
  LET Opened(f) ==
        IF f.status # "ok"
          THEN [status |-> f.status, found |-> FALSE, file |-> NoObject]
        ELSE IF f.name = localPath
          THEN [status |-> "ok", found |-> TRUE, file |-> f]
        ELSE ListUntilNamed(fs, entries, localPath, j + 1)
  IN  IF j > Len(entries) THEN [status |-> "ok", found |-> FALSE, file |-> NoObject]
      ELSE Opened(openEntry(fs, entries[j].name, entries[j].inodeNum))

\* The for loop of Ext2Disk.getFile over the path parts
RECURSIVE WalkFile(_, _, _, _)
WalkFile(fs, fileObject, pathParts, k) ==
  LET Listed(l) ==
        IF l.status # "ok" THEN Found(l.status, NoObject)
        ELSE WalkFile(fs, IF l.found THEN l.file ELSE fileObject, pathParts, k + 1)
  IN  IF k > Len(pathParts) THEN Found("ok", fileObject)
      ELSE IF ~fileObject.isDir THEN Found("ok", fileObject)
      ELSE Listed(ListUntilNamed(fs, fileObject.entries, pathParts[k], 1))

\* Ext2Disk.getFile(absolutePath), after its assert
getFile(fs, root, absolutePath) ==
  LET Walked(localName, w) ==
        IF w.status # "ok" THEN w
        ELSE IF w.file.name # localName THEN Found("FileNotFoundError", NoObject)
        ELSE w
      Walk(p1) == Walked(p1[Len(p1)], WalkFile(fs, root, DelFirst(p1), 1))
      Parts(p0) ==
        IF Len(p0) = 0 THEN Found("FileNotFoundError", NoObject)
        ELSE IF p0[1] # <<>> THEN Found("FileNotFoundError", NoObject)
        ELSE Walk(DropTrailingEmpty(p0))
  IN  Parts(Split(absolutePath))

----------------------------------------------------------------------------
(* Writes and allocation *)

\* _DeviceFromFile.write, for a byte string inside one block.  There is no
\* isMounted assert: on a closed device the seek on None raises.
writeToBlock(fs, blockId, offset, byteString, what) ==
  IF ~isMounted(fs)
    THEN [status |-> "AttributeError",
          fs |-> [fs EXCEPT !.log = Append(@, "closed:" \o what)]]
    ELSE [status |-> "ok",
          fs |-> [fs EXCEPT
                   !.blocks[blockId] =
                      [i \in 1..Len(@) |->
                         IF i > offset /\ i <= offset + Len(byteString)
                           THEN byteString[i - offset] ELSE @[i]],
                   !.log = Append(@, what)]]

\* write-back of an inode after one of its fields has changed
writeInode(fs, inodeNum, inode, what) ==
  IF ~isMounted(fs)
    THEN [status |-> "AttributeError",
          fs |-> [fs EXCEPT !.log = Append(@, "closed:" \o what)]]
    ELSE [status |-> "ok",
          fs |-> [fs EXCEPT !.inodes[inodeNum] = inode, !.log = Append(@, what)]]

Min(S) == CHOOSE x \in S : \A y \in S : x <= y

\* allocateInode(mode, uid, gid): first zero bit of the inode bitmap from
\* firstInode on; sets the bit and initialises the on-disk inode.
allocateInode(fs, mode) ==
  LET Take(free) ==
        IF free = {} THEN [status |-> "FilesystemError", fs |-> fs, number |-> 0]
        ELSE [status |-> "ok", number |-> Min(free),
              fs |-> [fs EXCEPT !.usedInodes = @ \cup {Min(free)},
                                 !.inodes[Min(free)] = [NoInode EXCEPT !.mode = mode],
                                 !.log = @ \o <<"inodeBitmap", "inode:init">>]]
  IN  IF ~isMounted(fs) THEN [status |-> "AssertionError", fs |-> fs, number |-> 0]
      ELSE Take((FirstInode..NumInodes) \ fs.usedInodes)

\* allocateBlock(zeroFill): first zero bit of the block bitmap; sets it and
\* zero-fills the block.
allocateBlock(fs, zeroFill) ==
  LET Take(free) ==
        IF free = {} THEN [status |-> "FilesystemError", fs |-> fs, bid |-> 0]
        ELSE [status |-> "ok", bid |-> Min(free),
              fs |-> [fs EXCEPT !.usedBlocks = @ \cup {Min(free)},
                                 !.blocks[Min(free)] =
                                    IF zeroFill THEN Zeros(blockSize) ELSE @,
                                 !.log = @ \o (IF zeroFill
                                                 THEN <<"blockBitmap", "block:zero">>
                                                 ELSE <<"blockBitmap">>)]]
  IN  IF ~isMounted(fs) THEN [status |-> "AssertionError", fs |-> fs, bid |-> 0]
      ELSE Take((1..(NumBlocks - 1)) \ fs.usedBlocks)

\* Inode.assignNextBlockId(newId): writes newId into the first unused slot
\* and returns the slot's logical index
assignNextBlockId(fs, inodeNum, newId) ==
  LET Written(index, w) == [status |-> w.status, fs |-> w.fs, index |-> index]
  IN  Written(Len(fs.inodes[inodeNum].block),
              writeInode(fs, inodeNum,
                         [fs.inodes[inodeNum] EXCEPT !.block = Append(@, newId)],
                         "inode:block"))

\* inode.size += blockSize
growSize(fs, inodeNum) ==
  writeInode(fs, inodeNum, [fs.inodes[inodeNum] EXCEPT !.size = @ + blockSize],
             "inode:size")

\* inode.numLinks += 1
addLink(fs, inodeNum) ==
  writeInode(fs, inodeNum, [fs.inodes[inodeNum] EXCEPT !.numLinks = @ + 1],
             "inode:numLinks")

----------------------------------------------------------------------------
(* _EntryList.append and Ext2Directory.makeDirectory *)

\* nameLength + 11, aligned down to 4 bytes
AlignedSize(nameLength) ==
  (nameLength + EntryBase) - ((nameLength + EntryBase) % 4)

\* The record length _Entry.nextEntry's setter writes into self when value
\* becomes its successor
NextEntrySize(self, value) ==
  IF value.bindex = self.bindex THEN value.offset - self.offset
  ELSE blockSize - self.offset + value.offset

Place(status, fs, bindex, bid, offset) ==
  [status |-> status, fs |-> fs, bindex |-> bindex, bid |-> bid, offset |-> offset]

\* Where _EntryList.append puts the new entry: after the last entry when it
\* fits on that entry's block, else at the start of a newly attached block
PlaceEntry(fs, dir, lastEntry, entrySize) ==
  LET Grown(a, g, z) == Place(z.status, z.fs, g.index, a.bid, 0)
      Assigned(a, g) ==
        IF g.status # "ok" THEN Place(g.status, g.fs, 0, 0, 0)
        ELSE Grown(a, g, growSize(g.fs, dir.inodeNum))
      Allocated(a) ==
        IF a.status # "ok" THEN Place(a.status, a.fs, 0, 0, 0)
        ELSE Assigned(a, assignNextBlockId(a.fs, dir.inodeNum, a.bid))
  IN  IF entrySize + lastEntry.offset + Len(lastEntry.name) + EntryBase < blockSize
        THEN Place("ok", fs, lastEntry.bindex, lastEntry.bid,
                   lastEntry.offset + AlignedSize(Len(lastEntry.name)))
        ELSE Allocated(allocateBlock(fs, TRUE))

Appended(status, fs, entries, entry) ==
  [status |-> status, fs |-> fs, entries |-> entries, entry |-> entry]

\* _EntryList.append(name, inodeNum) on the entry list of directory object dir
append(fs, dir, name, inodeNum) ==
  LET Linked(newEntry, n) ==
        IF n.status # "ok" THEN Appended(n.status, n.fs, dir.entries, NoEntry)
        ELSE Appended("ok", n.fs, Append(dir.entries, newEntry), newEntry)
      Written(lastEntry, newEntry, w) ==
        IF w.status # "ok" THEN Appended(w.status, w.fs, dir.entries, NoEntry)
        ELSE IF newEntry.bindex = lastEntry.bindex
                /\ ~(NextEntrySize(lastEntry, newEntry) > 0)
          THEN Appended("FilesystemError", w.fs, dir.entries, NoEntry)
        ELSE Linked(newEntry,
                    writeToBlock(w.fs, lastEntry.bid, lastEntry.offset + 4,
                                 PackLE(NextEntrySize(lastEntry, newEntry), 2),
                                 "entry:recordLength"))
      Packed(lastEntry, place, byteString) ==
        Written(lastEntry,
                Entry(place.bindex, place.bid, place.offset, byteString).e,
                writeToBlock(place.fs, place.bid, place.offset, byteString,
                             "block:entry"))
      Placed(lastEntry, entrySize, place) ==
        IF place.status # "ok"
          THEN Appended(place.status, place.fs, dir.entries, NoEntry)
          ELSE Packed(lastEntry, place, PackEntry(inodeNum, entrySize, name))
      Sized(lastEntry, entrySize) ==
        Placed(lastEntry, entrySize, PlaceEntry(fs, dir, lastEntry, entrySize))
  IN  IF Len(name) > MaxNameLen
        THEN Appended("FilesystemError", fs, dir.entries, NoEntry)
      ELSE IF ~(Len(name) > 0)
        THEN Appended("FilesystemError", fs, dir.entries, NoEntry)
      ELSE IF Len(dir.entries) = 0
        THEN Appended("IndexError", fs, dir.entries, NoEntry)
      ELSE Sized(dir.entries[Len(dir.entries)], AlignedSize(Len(name)))

\* len(name.strip()) == 0
Whitespace == {9, 10, 11, 12, 13, Space}
IsBlank(name) == \A i \in 1..Len(name) : name[i] \in Whitespace

\* name.rindex("/"), 1-based; 0 when name holds no "/"
RIndexSlash(name, i) ==
  LET Last(S) == IF S = {} THEN 0 ELSE CHOOSE k \in S : \A j \in S : j <= k
  IN  Last({k \in 1..i : name[k] = Slash})

NewEntry(status, msg, fs, entry, holder) ==
  [status |-> status, msg |-> msg, fs |-> fs, entry |-> entry, holder |-> holder]

\* Ext2Directory.__makeNewEntry for a name without "/", on directory object dir
makeNewEntryHere(fs, dir, name, mode) ==
  LET Linked(ap, l) ==
        IF l.status # "ok" THEN NewEntry(l.status, "", l.fs, NoEntry, dir)
        ELSE NewEntry("ok", "", l.fs, ap.entry, [dir EXCEPT !.entries = ap.entries])
      Listed(ai, ap) ==
        IF ap.status # "ok" THEN NewEntry(ap.status, "", ap.fs, NoEntry, dir)
        ELSE Linked(ap, addLink(ap.fs, ai.number))
      Grown(ai, z) ==
        IF z.status # "ok" THEN NewEntry(z.status, "", z.fs, NoEntry, dir)
        ELSE Listed(ai, append(z.fs, dir, name, ai.number))
      Assigned(ai, g) ==
        IF g.status # "ok" THEN NewEntry(g.status, "", g.fs, NoEntry, dir)
        ELSE Grown(ai, growSize(g.fs, ai.number))
      Block(ai, ab) ==
        IF ab.status # "ok" THEN NewEntry(ab.status, "", ab.fs, NoEntry, dir)
        ELSE Assigned(ai, assignNextBlockId(ab.fs, ai.number, ab.bid))
      Inode(ai) ==
        IF ai.status # "ok" THEN NewEntry(ai.status, "", ai.fs, NoEntry, dir)
        ELSE Block(ai, allocateBlock(ai.fs, TRUE))
  IN  IF IsBlank(name)
        THEN NewEntry("FilesystemError", "No name specified.", fs, NoEntry, dir)
      ELSE IF FirstNamed(dir.entries, name, 1) # 0
        THEN NewEntry("FilesystemError", "An entry with that name already exists.",
                      fs, NoEntry, dir)
      ELSE Inode(allocateInode(fs, mode))

\* Ext2Directory.__makeNewEntry(name, mode, uid, gid) on directory object self:
\* a name with "/" is handed to the directory its head resolves to
makeNewEntry(fs, self, name, mode) ==
  LET In(r, parent) ==
        IF parent.status # "ok" THEN NewEntry(parent.status, "", fs, NoEntry, self)
        ELSE IF parent.file.kind # "Directory"
          THEN NewEntry("AttributeError", "", fs, NoEntry, self)
        ELSE makeNewEntryHere(fs, parent.file, SubSeq(name, r + 1, Len(name)), mode)
      At(r) ==
        IF r = 0 THEN makeNewEntryHere(fs, self, name, mode)
        ELSE In(r, getFileAt(fs, self, SubSeq(name, 1, r - 1)))
  IN  At(RIndexSlash(name, Len(name)))

MadeDirectory(status, msg, fs, file, self2, holder) ==
  [status |-> status, msg |-> msg, fs |-> fs, file |-> file, self2 |-> self2,
   holder |-> holder]

\* Ext2Directory.makeDirectory(name) on directory object self.  self2 is the
\* object self afterwards: its entry list has grown when it held the entry.
makeDirectory(fs, self, name) ==
  LET Opened(m, self2, w, o) ==
        IF o.status # "ok"
          THEN MadeDirectory(o.status, "", w.fs, NoObject, self2, m.holder.inodeNum)
          ELSE MadeDirectory("ok", "", w.fs, o, self2, m.holder.inodeNum)
      Written(m, self2, w) ==
        IF w.status # "ok"
          THEN MadeDirectory(w.status, "", w.fs, NoObject, self2, m.holder.inodeNum)
          ELSE Opened(m, self2, w, openEntry(w.fs, m.entry.name, m.entry.inodeNum))
      Read(m, self2, r) ==
        IF r.status # "ok"
          THEN MadeDirectory(r.status, "", m.fs, NoObject, self2, m.holder.inodeNum)
          ELSE Written(m, self2,
                       writeToBlock(m.fs, lookupBlockId(r.inode, 0), 0,
                                    PackDefaultEntries(m.entry.inodeNum, self.inodeNum),
                                    "block:default"))
      Entered(m, self2) ==
        IF m.status # "ok"
          THEN MadeDirectory(m.status, m.msg, m.fs, NoObject, self2, m.holder.inodeNum)
          ELSE Read(m, self2, readInode(m.fs, m.entry.inodeNum))
      Made(m) ==
        Entered(m, IF [m.holder EXCEPT !.entries = self.entries] = self
                     THEN m.holder ELSE self)
  IN  Made(makeNewEntry(fs, self, name, DirMode))

\* list(self.files()): every entry of the list opened, in order
RECURSIVE FilesFrom(_, _, _, _)
FilesFrom(fs, entries, j, acc) ==
  LET Opened(f) ==
        IF f.status # "ok" THEN [status |-> f.status, files |-> acc]
        ELSE FilesFrom(fs, entries, j + 1,
                       Append(acc, [name |-> f.name, inodeNum |-> f.inodeNum]))
  IN  IF j > Len(entries) THEN [status |-> "ok", files |-> acc]
      ELSE Opened(openEntry(fs, entries[j].name, entries[j].inodeNum))

files(fs, self) == FilesFrom(fs, self.entries, 1, <<>>)

----------------------------------------------------------------------------
(* Images the filesystem is mounted from: valid ext2 directory blocks *)

\* smallest record length of an entry: 8 bytes of header and the padded name
MinRecordLength(nameLength) == ((8 + nameLength + 3) \div 4) * 4

\* A directory block holding the entries es (name, inodeNum) in order; the
\* last record length is extended to the end of the block.
RECURSIVE DirBlock(_, _)
DirBlock(es, offset) ==
  LET e == Head(es)
      len == IF Len(es) = 1 THEN blockSize - offset
             ELSE MinRecordLength(Len(e.name))
      rec == PackEntry(e.inodeNum, len, e.name) \o Zeros(len - 8 - Len(e.name))
  IN  IF Len(es) = 1 THEN rec ELSE rec \o DirBlock(Tail(es), offset + len)

DotEntries(self, parent) ==
  << [name |-> <<Dot>>, inodeNum |-> self],
     [name |-> <<Dot, Dot>>, inodeNum |-> parent] >>

RegMode == 32768 + 420     \* 0x8000 | 0644

\* a fresh image: the root directory only
EmptyImage ==
  [blocks |-> [b \in 0..(NumBlocks - 1) |->
                 IF b = 1 THEN DirBlock(DotEntries(RootInode, RootInode), 0)
                 ELSE Zeros(blockSize)],
   inodes |-> [n \in 1..NumInodes |->
                 IF n = RootInode
                   THEN [mode |-> DirMode, size |-> blockSize, block |-> <<1>>,
                         numLinks |-> 2]
                   ELSE NoInode],
   usedInodes |-> 1..RootInode,
   usedBlocks |-> {0, 1}]

\* the root directory holding one regular file, "b"
FileImage ==
  [EmptyImage EXCEPT
     !.blocks[1] = DirBlock(DotEntries(RootInode, RootInode)
                            \o << [name |-> <<ChB>>, inodeNum |-> FirstInode] >>, 0),
     !.inodes[FirstInode] = [mode |-> RegMode, size |-> 0, block |-> <<>>,
                             numLinks |-> 1],
     !.usedInodes = @ \cup {FirstInode}]

\* a tree: /a is a directory holding the regular file b, /b is a regular file
TreeImage ==
  [EmptyImage EXCEPT
     !.blocks[1] = DirBlock(DotEntries(RootInode, RootInode)
                            \o << [name |-> <<ChA>>, inodeNum |-> 3],
                                  [name |-> <<ChB>>, inodeNum |-> 4] >>, 0),
     !.blocks[2] = DirBlock(DotEntries(3, RootInode)
                            \o << [name |-> <<ChB>>, inodeNum |-> 5] >>, 0),
     !.inodes[RootInode] = [@ EXCEPT !.numLinks = 3],
     !.inodes[3] = [mode |-> DirMode, size |-> blockSize, block |-> <<2>>,
                    numLinks |-> 2],
     !.inodes[4] = [mode |-> RegMode, size |-> 0, block |-> <<>>, numLinks |-> 1],
     !.inodes[5] = [mode |-> RegMode, size |-> 0, block |-> <<>>, numLinks |-> 1],
     !.usedInodes = 1..5,
     !.usedBlocks = {0, 1, 2}]

Images == {EmptyImage, FileImage, TreeImage}

Alphabet == {Slash, ChA, ChB}

\* the paths handed to the lookups
Paths == UNION {[1..k -> Alphabet] : k \in 0..MaxPathLen}

\* the names handed to makeDirectory
MkNames == UNION {[1..k -> {Slash, ChA}] : k \in 0..MaxPathLen}

----------------------------------------------------------------------------
(* The Ext2Disk facade: state and calls *)

NoCall ==
  [op |-> "none", path |-> <<>>, status |-> "none", msg |-> "", inodeNum |-> 0,
   kind |-> "None", listing |-> <<>>, holder |-> 0, log |-> <<>>,
   before |-> <<>>, rebuilt |-> [status |-> "none", listing |-> <<>>],
   args |-> <<>>, bytes |-> <<>>, messages |-> <<>>, after |-> <<>>]

Call(op, path, status) ==
  [NoCall EXCEPT !.op = op, !.path = path, !.status = status]

Returned(op, path, r) ==
  IF r.status # "ok" THEN Call(op, path, r.status)
  ELSE [Call(op, path, "ok") EXCEPT !.inodeNum = r.file.inodeNum,
                                    !.kind = r.file.kind]

Init ==
  /\ imageFile = "None"
  /\ isValid = FALSE
  /\ rootDir = NoObject
  /\ lifecycle = "new"
  /\ \E image \in Images :
       /\ blocks = image.blocks
       /\ inodes = image.inodes
       /\ usedInodes = image.usedInodes
       /\ usedBlocks = image.usedBlocks
  /\ last = NoCall

\* an except branch that leaves _isValid as it found it
mountExceptKeepsValid(valid) == [imageFile |-> "None", isValid |-> valid]

\* The except branch of Ext2Disk.mount: the state it leaves, valid being
\* the value of _isValid when the exception was raised
mountExcept(valid) == [imageFile |-> "None", isValid |-> FALSE]

\* Ext2Disk.mount.  failAt is the read that fails: of the superblock, of
\* the BGDT, of the root directory, or none.
mount(failAt) ==
  LET Raised(x) ==
        [imageFile |-> x.imageFile, isValid |-> x.isValid, rootDir |-> rootDir,
         status |-> "InvalidImageFormatError"]
      Rooted(root) ==
        IF failAt = "none" /\ root.status = "ok"
          THEN [imageFile |-> "open", isValid |-> TRUE, rootDir |-> root,
                status |-> "ok"]
          ELSE Raised(mountExcept(TRUE))
  IN  IF failAt \in {"superblock", "bgdt"} THEN Raised(mountExcept(FALSE))
      ELSE Rooted(openRootDirectory([ThisFs EXCEPT !.open = TRUE]))

Mounted(failAt, m) ==
  /\ imageFile' = m.imageFile
  /\ isValid' = m.isValid
  /\ rootDir' = m.rootDir
  /\ lifecycle' = IF m.status # "ok" THEN "mountFailed"
                  ELSE IF lifecycle \in {"unmounted", "remounted"} THEN "remounted"
                  ELSE "mounted"
  /\ last' = [Call("mount", <<>>, m.status) EXCEPT !.msg = failAt]
  /\ UNCHANGED <<blocks, inodes, usedInodes, usedBlocks>>

Mount(failAt) == Mounted(failAt, mount(failAt))

\* an unmount that closes the image and leaves _isValid as it is
unmountKeepsValid == [imageFile |-> "None", isValid |-> isValid]

\* Ext2Disk.unmount: the state it leaves
unmount == [imageFile |-> "None", isValid |-> FALSE]

Unmount ==
  /\ imageFile' = unmount.imageFile
  /\ isValid' = unmount.isValid
  /\ lifecycle' = "unmounted"
  /\ last' = Call("unmount", <<>>, "ok")
  /\ UNCHANGED <<rootDir, blocks, inodes, usedInodes, usedBlocks>>

\* The properties and scans of Ext2Disk that start with assert self.isValid
GuardedOps ==
  {"rootDir", "scanBlockGroups", "checkIntegrity", "revision", "totalSpace",
   "freeSpace", "usedSpace", "blockSize", "numInodes", "numBlockGroups"}

\* assert self.isValid, "Filesystem is not valid."
assertValid == IF isValid THEN "ok" ELSE "AssertionError"

\* A guarded property or scan: it returns once its assert has passed
Property(op) ==
  /\ last' = Call(op, <<>>, assertValid)
  /\ UNCHANGED <<imageFile, isValid, rootDir, lifecycle, blocks, inodes,
                 usedInodes, usedBlocks>>

\* Ext2Disk.getFile(absolutePath)
GetFile(path) ==
  /\ last' = IF assertValid # "ok" THEN Call("getFile", path, assertValid)
             ELSE Returned("getFile", path, getFile(ThisFs, rootDir, path))
  /\ UNCHANGED <<imageFile, isValid, rootDir, lifecycle, blocks, inodes,
                 usedInodes, usedBlocks>>

\* Ext2Directory.getFileAt(relativePath) on the root directory object the
\* client got from the last successful mount
GetFileAt(path) ==
  /\ rootDir # NoObject
  /\ last' = Returned("getFileAt", path, getFileAt(ThisFs, rootDir, path))
  /\ UNCHANGED <<imageFile, isValid, rootDir, lifecycle, blocks, inodes,
                 usedInodes, usedBlocks>>

Listed(r) ==
  last' = [Call("files", <<>>, r.status) EXCEPT
             !.listing = IF r.status = "ok" THEN r.files ELSE <<>>]

\* list(rootDir.files())
Files ==
  /\ rootDir # NoObject
  /\ Listed(files(ThisFs, rootDir))
  /\ UNCHANGED <<imageFile, isValid, rootDir, lifecycle, blocks, inodes,
                 usedInodes, usedBlocks>>

Listing(entries) ==
  [j \in 1..Len(entries) |->
     [name |-> entries[j].name, inodeNum |-> entries[j].inodeNum]]

Made(name, r) ==
  /\ blocks' = r.fs.blocks
  /\ inodes' = r.fs.inodes
  /\ usedInodes' = r.fs.usedInodes
  /\ usedBlocks' = r.fs.usedBlocks
  /\ rootDir' = r.self2
  /\ last' = [Call("makeDirectory", name, r.status) EXCEPT
                !.msg = r.msg,
                !.inodeNum = r.file.inodeNum,
                !.kind = r.file.kind,
                !.listing = Listing(r.file.entries),
                !.holder = r.holder,
                !.log = r.fs.log]

\* rootDir.makeDirectory(name)
MakeDirectory(name) ==
  /\ rootDir # NoObject
  /\ Made(name, makeDirectory(ThisFs, rootDir, name))
  /\ UNCHANGED <<imageFile, isValid, lifecycle>>

\* "/".join(parts)
RECURSIVE Join(_)
Join(parts) ==
  IF Len(parts) = 0 THEN <<>>
  ELSE IF Len(parts) = 1 THEN parts[1]
  ELSE parts[1] \o <<Slash>> \o Join(Tail(parts))

\* Ext2Disk.makeDirFile(absolutePath), after its assert: it finds the parent
\* directory and allocates nothing
makeDirFile(fs, root, absolutePath) ==
  LET Parent(p1) == getFile(fs, root, <<Slash>> \o Join(DelLast(p1))).status
      Parts(p0) ==
        IF Len(p0) = 0 THEN "FileNotFoundError"
        ELSE IF p0[1] # <<>> THEN "FileNotFoundError"
        ELSE Parent(DropTrailingEmpty(p0))
      Dest(dest) ==
        IF dest.status = "ok" THEN "FileAlreadyExistsError"
        ELSE IF dest.status # "FileNotFoundError" THEN dest.status
        ELSE Parts(Split(absolutePath))
  IN  Dest(getFile(fs, root, absolutePath))

MakeDirFile(path) ==
  /\ last' = IF assertValid # "ok" THEN Call("makeDirFile", path, assertValid)
             ELSE Call("makeDirFile", path, makeDirFile(ThisFs, rootDir, path))
  /\ UNCHANGED <<imageFile, isValid, rootDir, lifecycle, blocks, inodes,
                 usedInodes, usedBlocks>>

\* the lifecycle calls, the guarded properties and the lookups
NextRead ==
  \/ \E failAt \in {"none", "superblock", "bgdt", "root"} : Mount(failAt)
  \/ Unmount
  \/ \E op \in GuardedOps : Property(op)
  \/ \E path \in Paths : GetFile(path)
  \/ \E path \in Paths : GetFileAt(path)
  \/ Files

\* the facade on an image that no call changes
SpecRead == Init /\ [][NextRead]_vars

\* the lifecycle calls and the calls that create a directory
Next ==
  \/ \E failAt \in {"none", "root"} : Mount(failAt)
  \/ Unmount
  \/ \E path \in MkNames : GetFileAt(path)
  \/ Files
  \/ \E name \in MkNames : MakeDirectory(name)
  \/ \E path \in MkNames : MakeDirFile(path)

Spec == Init /\ [][Next]_vars

----------------------------------------------------------------------------
(* A mounted filesystem, as Ext2Disk.mount leaves it on an image *)

OpenImage(image) ==
  [open |-> TRUE, blocks |-> image.blocks, inodes |-> image.inodes,
   usedInodes |-> image.usedInodes, usedBlocks |-> image.usedBlocks,
   log |-> <<>>]

InitMounted(image) ==
  /\ imageFile = "open"
  /\ isValid = TRUE
  /\ rootDir = openRootDirectory(OpenImage(image))
  /\ lifecycle = "mounted"
  /\ blocks = image.blocks
  /\ inodes = image.inodes
  /\ usedInodes = image.usedInodes
  /\ usedBlocks = image.usedBlocks
  /\ last = NoCall

----------------------------------------------------------------------------
(* _openEntry over the 16-bit inode modes *)

PermBits == {0, 420, 493, 4095}     \* 0, 0644, 0755, 07777

\* every type nibble with each of the permission samples
Modes == {n * 4096 + p : n \in 0..15, p \in PermBits}

\* FileImage with the mode of the inode of "b" set
ModeImage(mode) == [FileImage EXCEPT !.inodes[FirstInode].mode = mode]

InitOpen == \E mode \in Modes : InitMounted(ModeImage(mode))

NextOpen == \E path \in {<<>>, <<ChB>>, <<Dot>>} : GetFileAt(path)

SpecOpen == InitOpen /\ [][NextOpen]_vars

----------------------------------------------------------------------------
(* _EntryList.append on the root directory's entry list *)

MaxEntries == 4       \* appends are made to lists shorter than this
MaxNameBytes == 9     \* longest name appended

AppendNames == {[i \in 1..k |-> ChA] : k \in 1..MaxNameBytes} \cup {<<ChB>>}
AppendInodes == {FirstInode, FirstInode + 1}

\* _EntryList(containingDir) built again from the device
Rebuild(fs, inodeNum) ==
  LET Scanned(el) ==
        [status |-> el.status,
         listing |-> IF el.status = "ok" THEN Listing(el.entries) ELSE <<>>]
      Read(r) ==
        IF r.status # "ok" THEN [status |-> r.status, listing |-> <<>>]
        ELSE Scanned(EntryList(fs, r.inode))
  IN  Read(readInode(fs, inodeNum))

AppendedTo(name, inodeNum, ap) ==
  /\ blocks' = ap.fs.blocks
  /\ inodes' = ap.fs.inodes
  /\ usedInodes' = ap.fs.usedInodes
  /\ usedBlocks' = ap.fs.usedBlocks
  /\ rootDir' = [rootDir EXCEPT !.entries = ap.entries]
  /\ last' = [Call("append", name, ap.status) EXCEPT
                !.inodeNum = inodeNum,
                !.before = Listing(rootDir.entries),
                !.listing = Listing(ap.entries),
                !.rebuilt = Rebuild(ap.fs, rootDir.inodeNum),
                !.log = ap.fs.log]

\* rootDir._entryList.append(name, inodeNum), then the two iterations
AppendEntry(name, inodeNum) ==
  /\ rootDir # NoObject
  /\ Len(rootDir.entries) < MaxEntries
  /\ AppendedTo(name, inodeNum, append(ThisFs, rootDir, name, inodeNum))
  /\ UNCHANGED <<imageFile, isValid, lifecycle>>

InitAppend == \E image \in Images : InitMounted(image)

NextAppend ==
  \E name \in AppendNames, inodeNum \in AppendInodes : AppendEntry(name, inodeNum)

SpecAppend == InitAppend /\ [][NextAppend]_vars

----------------------------------------------------------------------------
(* The device and the inode table, called directly *)

MaxRead == 3          \* longest read, and how far from the end a read starts

\* the bytes of the image file: its blocks in order
RECURSIVE DeviceFrom(_, _)
DeviceFrom(fs, b) ==
  IF b >= NumBlocks THEN <<>> ELSE fs.blocks[b] \o DeviceFrom(fs, b + 1)

DeviceBytes(fs) == DeviceFrom(fs, 0)

\* _DeviceFromFile.read(position, size): file.read returns the bytes there
\* are, fewer than size at the end of the file
read(fs, position, size) ==
  IF ~isMounted(fs) THEN [status |-> "AssertionError", bytes |-> <<>>]
  ELSE [status |-> "ok",
        bytes |-> SliceTo(SliceFrom(DeviceBytes(fs), position), size)]

DeviceSize == NumBlocks * blockSize

WasRead(position, size, r) ==
  last' = [Call("read", <<>>, r.status) EXCEPT
             !.args = <<position, size>>, !.bytes = r.bytes]

\* device.read(position, size)
DeviceRead(position, size) ==
  /\ WasRead(position, size, read(ThisFs, position, size))
  /\ UNCHANGED <<imageFile, isValid, rootDir, lifecycle, blocks, inodes,
                 usedInodes, usedBlocks>>

InodeRead(inodeNum, r) ==
  last' = [Call("readInode", <<>>, r.status) EXCEPT
             !.args = <<inodeNum>>,
             !.inodeNum = r.num,
             !.kind = IF r.status = "ok" THEN OpenKind(r.inode.mode) ELSE "None"]

\* fs._readInode(inodeNum)
ReadInode(inodeNum) ==
  /\ InodeRead(inodeNum, readInode(ThisFs, inodeNum))
  /\ UNCHANGED <<imageFile, isValid, rootDir, lifecycle, blocks, inodes,
                 usedInodes, usedBlocks>>

NumGroups == 2        \* block groups of the bitmaps scanned
BitmapBytes == 1      \* bytes of one group's bitmap

\* numBlocksPerGroup and numInodesPerGroup of these bitmaps: bitmapSize * 8
PerGroup == 8 * BitmapBytes

\* the bitmaps of the groups, as read from the device
Bitmaps == [1..NumGroups -> [1..BitmapBytes -> {0, 5, 254, 255}]]

\* (1 << i) & byte != 0
BitSet(byte, i) == (byte \div Pow(2, i)) % 2 = 1

\* for i in range(8): the ids of the bits set in byte, first being the id of
\* bit 0
RECURSIVE UsedInByte(_, _, _)
UsedInByte(byte, first, i) ==
  IF i > 7 THEN <<>>
  ELSE (IF BitSet(byte, i) THEN <<first + i>> ELSE <<>>)
       \o UsedInByte(byte, first, i + 1)

\* the loops of __getUsedBlocks over groups and bytes, from the k-th byte
\* of all bitmaps on
RECURSIVE UsedBlocksFrom(_, _)
UsedBlocksFrom(bitmaps, k) ==
  IF k >= Len(bitmaps) * BitmapBytes THEN <<>>
  ELSE UsedInByte(bitmaps[(k \div BitmapBytes) + 1][(k % BitmapBytes) + 1],
                  ((k \div BitmapBytes) * PerGroup) + ((k % BitmapBytes) * 8) + 1,
                  0)
       \o UsedBlocksFrom(bitmaps, k + 1)

\* Ext2Disk.__getUsedBlocks on a filesystem with these block bitmaps
getUsedBlocks(bitmaps) == UsedBlocksFrom(bitmaps, 0)

\* self.__getUsedBlocks() on a filesystem whose superblock says firstDataBlock
GetUsedBlocks(firstDataBlock, bitmaps) ==
  /\ last' = [Call("getUsedBlocks", <<>>, "ok") EXCEPT
                !.args = <<firstDataBlock>>,
                !.before = bitmaps,
                !.listing = getUsedBlocks(bitmaps)]
  /\ UNCHANGED <<imageFile, isValid, rootDir, lifecycle, blocks, inodes,
                 usedInodes, usedBlocks>>

\* index of the first group descriptor with num_free_inodes > 0, 0 if none
RECURSIVE FirstFreeGroup(_, _)
FirstFreeGroup(numFree, g) ==
  IF g > Len(numFree) THEN 0
  ELSE IF numFree[g] > 0 THEN g
  ELSE FirstFreeGroup(numFree, g + 1)

\* TRUE when some byte of the bitmap has a zero bit
HasZeroBit(bitmap) ==
  \E b \in 1..Len(bitmap) : bitmap[b] # 255 /\ \E i \in 0..7 : ~BitSet(bitmap[b], i)

\* Ext2Disk._allocateInode(isForDirectory) on the group counters numFree
\* and the inode bitmaps.  At the first zero bit it hands an int to
\* file.write, which raises; without a zero bit it falls off its end and
\* returns None.  It writes no counter.
Ext2Disk_allocateInode(isForDirectory, numFree, bitmaps) ==
  LET Scanned(g) ==
        IF g = 0 THEN [status |-> "Exception", number |-> 0]
        ELSE IF HasZeroBit(bitmaps[g]) THEN [status |-> "TypeError", number |-> 0]
        ELSE [status |-> "ok", number |-> 0]
  IN  Scanned(FirstFreeGroup(numFree, 1))

RECURSIVE Sum(_)
Sum(seq) == IF Len(seq) = 0 THEN 0 ELSE Head(seq) + Sum(Tail(seq))

\* the inode bitmaps and the counters of the group descriptors and of the
\* superblock, as they are on the device
GroupState(numFree, bitmaps) ==
  [numFree |-> numFree, bitmaps |-> bitmaps,
   numDirectories |-> [g \in 1..NumGroups |-> 0],
   superblockFree |-> Sum(numFree)]

Allocated(isForDirectory, numFree, bitmaps, r) ==
  last' = [Call("allocateInode", <<>>, r.status) EXCEPT
             !.args = <<isForDirectory>>,
             !.inodeNum = r.number,
             !.before = GroupState(numFree, bitmaps),
             !.after = GroupState(numFree, bitmaps)]

\* self._allocateInode(isForDirectory) on a filesystem with these group
\* counters and inode bitmaps
AllocateInode(isForDirectory, numFree, bitmaps) ==
  /\ Allocated(isForDirectory, numFree, bitmaps,
               Ext2Disk_allocateInode(isForDirectory, numFree, bitmaps))
  /\ UNCHANGED <<imageFile, isValid, rootDir, lifecycle, blocks, inodes,
                 usedInodes, usedBlocks>>

NextEngine ==
  \/ \E position \in {0} \cup {DeviceSize - k : k \in 0..MaxRead},
        size \in 0..MaxRead :
       DeviceRead(position, size)
  \/ \E inodeNum \in (0 - 1)..(NumInodes + 2) : ReadInode(inodeNum)
  \/ \E firstDataBlock \in {0, 1}, bitmaps \in Bitmaps :
       GetUsedBlocks(firstDataBlock, bitmaps)
  \/ \E isForDirectory \in BOOLEAN, numFree \in [1..NumGroups -> {0, 1}],
        bitmaps \in Bitmaps :
       AllocateInode(isForDirectory, numFree, bitmaps)

SpecEngine == InitAppend /\ [][NextEngine]_vars

----------------------------------------------------------------------------
(* _EntryList built from directory blocks of any content *)

\* a record as it lies in a block: its header and name, zero-padded to the
\* span bytes it occupies; size is the record length its header states
RawRecord(inodeNum, size, name, span) ==
  PackEntry(inodeNum, size, name) \o Zeros(span - 8 - Len(name))

\* TreeImage with the directory a (inode 3) rewritten: its first block holds
\* ".", "..", a record named a and a record named b with the given inode
\* numbers and record lengths; with twoBlocks it has a second block holding
\* the one entry b
ListImage(inodeA, sizeA, inodeB, sizeB, twoBlocks) ==
  [TreeImage EXCEPT
     !.blocks[2] = RawRecord(3, 12, <<Dot>>, 12)
                   \o RawRecord(RootInode, 12, <<Dot, Dot>>, 12)
                   \o RawRecord(inodeA, sizeA, <<ChA>>, 12)
                   \o RawRecord(inodeB, sizeB, <<ChB>>, blockSize - 36),
     !.blocks[3] = IF twoBlocks
                     THEN RawRecord(5, blockSize, <<ChB>>, blockSize)
                     ELSE @,
     !.inodes[3] = [@ EXCEPT
                      !.size = IF twoBlocks THEN 2 * blockSize ELSE blockSize,
                      !.block = IF twoBlocks THEN <<2, 3>> ELSE <<2>>],
     !.usedBlocks = IF twoBlocks THEN @ \cup {3} ELSE @]

ListImages ==
  {ListImage(inodeA, sizeA, inodeB, sizeB, twoBlocks) :
     inodeA \in {0, 4}, sizeA \in {0, 12, blockSize - 24},
     inodeB \in {0, 5}, sizeB \in {0, blockSize - 36},
     twoBlocks \in BOOLEAN}

InitList == \E image \in ListImages : InitMounted(image)

\* _EntryList(containingDir) for the directory of inode inodeNum
BuildEntryList(inodeNum) ==
  /\ inodeNum \in usedInodes
  /\ OpenKind(inodes[inodeNum].mode) = "Directory"
  /\ last' = [Call("entryList", <<>>, "ok") EXCEPT
                !.args = <<inodeNum>>,
                !.rebuilt = Rebuild(ThisFs, inodeNum)]
  /\ UNCHANGED <<imageFile, isValid, rootDir, lifecycle, blocks, inodes,
                 usedInodes, usedBlocks>>

NextList ==
  \/ \E inodeNum \in 1..NumInodes : BuildEntryList(inodeNum)
  \/ \E path \in {<<ChA>>, <<ChB>>, <<ChA, Slash, ChB>>} : GetFileAt(path)

SpecList == InitList /\ [][NextList]_vars

----------------------------------------------------------------------------
(* The scans: Ext2Disk.checkIntegrity and Ext2Disk.scanBlockGroups *)

\* dir.listContents(): the file objects of the entries, opened in order
RECURSIVE ContentsFrom(_, _, _, _)
ContentsFrom(fs, entries, j, acc) ==
  LET Opened(f) ==
        IF f.status # "ok" THEN [status |-> f.status, files |-> acc]
        ELSE ContentsFrom(fs, entries, j + 1, Append(acc, f))
  IN  IF j > Len(entries) THEN [status |-> "ok", files |-> acc]
      ELSE Opened(openEntry(fs, entries[j].name, entries[j].inodeNum))

listContents(fs, dir) == ContentsFrom(fs, dir.entries, 1, <<>>)

\* f.absolutePath of the file named name in the directory of path parentPath
absolutePath(parentPath, name) == parentPath \o <<Slash>> \o name

\* f.name == "." or f.name == ".."
IsDotName(name) == name = <<Dot>> \/ name = <<Dot, Dot>>

\* f._getUsedBlocks(): the block ids the inode of f points to
getUsedBlocksOf(fs, f) ==
  SelectSeq(fs.inodes[f.inodeNum].block, LAMBDA bid : bid # 0)

Message(kind, path, inodeNum, bid, other) ==
  [kind |-> kind, path |-> path, inodeNum |-> inodeNum, bid |-> bid,
   other |-> other]

\* The loop "for bid in f._getUsedBlocks()" of checkIntegrity.  accessedBy
\* maps a block marked used to the path that claimed it, <<>> standing for
\* None.
RECURSIVE CheckBlocks(_, _, _, _, _)
CheckBlocks(bids, i, f, path, st) ==
  IF i > Len(bids) THEN st
  ELSE CheckBlocks(bids, i + 1, f, path,
         IF bids[i] \notin DOMAIN st.accessedBy
           THEN [st EXCEPT !.messages =
                   Append(@, Message("notMarkedUsed", path, f.inodeNum, bids[i], <<>>))]
         ELSE IF st.accessedBy[bids[i]] # <<>>
           THEN [st EXCEPT !.messages =
                   Append(@, Message("referencedByBoth", path, f.inodeNum, bids[i],
                                     st.accessedBy[bids[i]]))]
         ELSE [st EXCEPT !.accessedBy[bids[i]] = path])

\* the inode check of checkIntegrity for the file f
CheckInode(fs, f, path, st) ==
  IF ~(f.inodeNum \in fs.usedInodes /\ f.inodeNum \in st.used)
    THEN [st EXCEPT !.messages =
            Append(@, Message("inodeNotUsed", path, f.inodeNum, 0, <<>>))]
    ELSE [st EXCEPT !.reachable = @ \cup {f.inodeNum}]

\* The loop "for f in dir.listContents()" of checkIntegrity
RECURSIVE CheckFiles(_, _, _, _, _, _, _)
CheckFiles(fs, contents, k, parentPath, depth, queue, st) ==
  IF k > Len(contents) THEN [queue |-> queue, st |-> st]
  ELSE IF IsDotName(contents[k].name)
    THEN CheckFiles(fs, contents, k + 1, parentPath, depth, queue, st)
  ELSE CheckFiles(fs, contents, k + 1, parentPath, depth,
         IF contents[k].isDir
           THEN Append(queue, [dir |-> contents[k], depth |-> depth + 1,
                               path |-> absolutePath(parentPath, contents[k].name)])
           ELSE queue,
         CheckBlocks(getUsedBlocksOf(fs, contents[k]), 1, contents[k],
                     absolutePath(parentPath, contents[k].name),
                     CheckInode(fs, contents[k],
                                absolutePath(parentPath, contents[k].name), st)))

\* The loop "while not q.empty()" of checkIntegrity.  What a directory puts
\* on the queue depends on its inode alone, so a directory taken from the
\* queue more than NumInodes levels below the root lies on a path that
\* repeats an inode: the loop then never ends ("hang").
RECURSIVE CheckQueue(_, _, _)
CheckQueue(fs, queue, st) ==
  LET Checked(v) == CheckQueue(fs, v.queue, v.st)
      Contents(c) ==
        IF c.status # "ok" THEN [status |-> c.status, st |-> st]
        ELSE Checked(CheckFiles(fs, c.files, 1, Head(queue).path,
                                Head(queue).depth, Tail(queue), st))
  IN  IF Len(queue) = 0 THEN [status |-> "ok", st |-> st]
      ELSE IF Head(queue).depth > NumInodes THEN [status |-> "hang", st |-> st]
      ELSE Contents(listContents(fs, Head(queue).dir))

\* the numbers of a set, smallest first
RECURSIVE Sorted(_)
Sorted(S) == IF S = {} THEN <<>> ELSE <<Min(S)>> \o Sorted(S \ {Min(S)})

\* the loop "for inodeNum in inodesReachable" of checkIntegrity
Unreachable(st) ==
  [i \in 1..Cardinality(st.used \ st.reachable) |->
     Message("unreachable", <<>>, Sorted(st.used \ st.reachable)[i], 0, <<>>)]

\* Ext2Disk.checkIntegrity, after its assert, on a filesystem with one block
\* group and no superblock copies.  shortRead names the bitmap whose read
\* comes up short, "none" when both bitmaps are read in full.
checkIntegrity(fs, root, shortRead) ==
  LET Walked(w) ==
        IF w.status # "ok" THEN [status |-> w.status, messages |-> <<>>]
        ELSE [status |-> "ok", messages |-> w.st.messages \o Unreachable(w.st)]
  IN  IF shortRead # "none" THEN [status |-> "Exception", messages |-> <<>>]
      ELSE Walked(CheckQueue(fs, <<[dir |-> root, depth |-> 0, path |-> <<>>]>>,
                             [messages |-> <<>>,
                              accessedBy |-> [b \in fs.usedBlocks \ {0} |-> <<>>],
                              used |-> {n \in fs.usedInodes : n >= FirstInode},
                              reachable |-> {}]))

Reported(op, shortRead, r) ==
  [Call(op, <<>>, r.status) EXCEPT !.args = <<shortRead>>, !.messages = r.messages]

CheckIntegrity(shortRead) ==
  /\ last' = IF assertValid # "ok" THEN Call("checkIntegrity", <<>>, assertValid)
             ELSE Reported("checkIntegrity", shortRead,
                           checkIntegrity(ThisFs, rootDir, shortRead))
  /\ UNCHANGED <<imageFile, isValid, rootDir, lifecycle, blocks, inodes,
                 usedInodes, usedBlocks>>

\* The loop "for f in dir.listContents()" of scanBlockGroups
RECURSIVE CountFiles(_, _, _, _, _)
CountFiles(contents, k, depth, queue, report) ==
  IF k > Len(contents) THEN [queue |-> queue, report |-> report]
  ELSE IF IsDotName(contents[k].name)
    THEN CountFiles(contents, k + 1, depth, queue, report)
  ELSE IF contents[k].isDir
    THEN CountFiles(contents, k + 1, depth,
                    Append(queue, [dir |-> contents[k], depth |-> depth + 1]),
                    [report EXCEPT !.numDirs = @ + 1])
  ELSE IF contents[k].kind = "Regular"
    THEN CountFiles(contents, k + 1, depth, queue,
                    [report EXCEPT !.numRegFiles = @ + 1])
  ELSE IF contents[k].kind = "Symlink"
    THEN CountFiles(contents, k + 1, depth, queue,
                    [report EXCEPT !.numSymlinks = @ + 1])
  ELSE CountFiles(contents, k + 1, depth, queue, report)

\* The loop "while not q.empty()" of scanBlockGroups; "hang" as in CheckQueue
RECURSIVE CountQueue(_, _, _)
CountQueue(fs, queue, report) ==
  LET Counted(v) == CountQueue(fs, v.queue, v.report)
      Contents(c) ==
        IF c.status # "ok" THEN [status |-> c.status, report |-> report]
        ELSE Counted(CountFiles(c.files, 1, Head(queue).depth, Tail(queue), report))
  IN  IF Len(queue) = 0 THEN [status |-> "ok", report |-> report]
      ELSE IF Head(queue).depth > NumInodes
        THEN [status |-> "hang", report |-> report]
      ELSE Contents(listContents(fs, Head(queue).dir))

\* Ext2Disk.scanBlockGroups, after its assert: the counts of the report
scanBlockGroups(fs, root) ==
  LET Counted(w) ==
        [status |-> w.status,
         messages |-> IF w.status # "ok" THEN <<>>
                      ELSE <<w.report.numDirs, w.report.numRegFiles,
                             w.report.numSymlinks>>]
  IN  Counted(CountQueue(fs, <<[dir |-> root, depth |-> 0]>>,
                         [numDirs |-> 1, numRegFiles |-> 0, numSymlinks |-> 0]))

ScanBlockGroups ==
  /\ last' = IF assertValid # "ok" THEN Call("scanBlockGroups", <<>>, assertValid)
             ELSE Reported("scanBlockGroups", "none", scanBlockGroups(ThisFs, rootDir))
  /\ UNCHANGED <<imageFile, isValid, rootDir, lifecycle, blocks, inodes,
                 usedInodes, usedBlocks>>

\* An image whose root directory holds the entries a and b, naming the
\* inodes x and y; inode RootInode + 1 is a regular file holding block bx
\* and inode RootInode + 2 a regular file holding block by.  The bitmaps mark
\* exactly the inodes and blocks the entries lead to.
ScanImage(x, y, bx, by) ==
  LET fileA == RootInode + 1
      fileB == RootInode + 2
      File(n, bid) ==
        IF n \in {x, y}
          THEN [NoInode EXCEPT !.mode = RegMode, !.size = blockSize,
                               !.block = <<bid>>,
                               !.numLinks = IF x = y THEN 2 ELSE 1]
          ELSE NoInode
  IN  [EmptyImage EXCEPT
         !.blocks[1] = DirBlock(DotEntries(RootInode, RootInode)
                                \o <<[inodeNum |-> x, name |-> <<ChA>>],
                                     [inodeNum |-> y, name |-> <<ChB>>]>>, 0),
         !.inodes[fileA] = File(fileA, bx),
         !.inodes[fileB] = File(fileB, by),
         !.usedInodes = @ \cup ({x, y} \cap {fileA, fileB}),
         !.usedBlocks = @ \cup (IF fileA \in {x, y} THEN {bx} ELSE {})
                          \cup (IF fileB \in {x, y} THEN {by} ELSE {})]

ScanInodes == {RootInode + 1, RootInode + 2, NumInodes + 1}

ScanImages ==
  Images \cup {ScanImage(x, y, bx, by) :
                 x \in ScanInodes, y \in ScanInodes,
                 bx \in 2..3, by \in 2..3}

InitScan == \E image \in ScanImages : InitMounted(image)

NextScan ==
  \/ \E shortRead \in {"none", "inodeBitmap", "blockBitmap"} :
       CheckIntegrity(shortRead)
  \/ ScanBlockGroups

SpecScan == InitScan /\ [][NextScan]_vars

\* images with and without an entry that names its own directory or an
\* ancestor of it; the last are TreeImage with the entry b of the directory
\* a naming the inode target
WalkImages ==
  ScanImages
    \cup {ScanImage(x, y, bx, by) :
            x \in ScanInodes \cup {RootInode}, y \in ScanInodes,
            bx \in 2..3, by \in 2..3}
    \cup {[TreeImage EXCEPT
              !.blocks[2] =
                 DirBlock(DotEntries(RootInode + 1, RootInode)
                          \o <<[name |-> <<ChB>>, inodeNum |-> target]>>, 0)] :
            target \in RootInode..NumInodes}

InitWalk == \E image \in WalkImages : InitMounted(image)

SpecWalk == InitWalk /\ [][NextScan]_vars

----------------------------------------------------------------------------
(* The lifecycle of one Ext2Disk: mount, unmount and the with-block *)

\* a with-block entry that reports the disk valid whatever mount did
enterAlwaysValid(failAt) == [mount(failAt) EXCEPT !.isValid = TRUE]

\* Ext2Disk.__enter__: self.mount(), whose exception leaves the method, then
\* the rootDir property, whose assert passes after a mount that returned
enter(failAt) == mount(failAt)

Enter(failAt) ==
  LET Entered(m) ==
        /\ imageFile' = m.imageFile
        /\ isValid' = m.isValid
        /\ rootDir' = m.rootDir
        /\ lifecycle' = IF m.status # "ok" THEN "mountFailed"
                        ELSE IF lifecycle \in {"unmounted", "remounted"}
                          THEN "remounted"
                        ELSE "mounted"
        /\ last' = [Call("enter", <<>>, m.status) EXCEPT
                      !.msg = failAt,
                      !.before = <<imageFile>>,
                      !.inodeNum = IF m.status = "ok" THEN m.rootDir.inodeNum ELSE 0]
  IN  /\ Entered(enter(failAt))
      /\ UNCHANGED <<blocks, inodes, usedInodes, usedBlocks>>

\* Ext2Disk.__exit__: self.unmount()
Exit ==
  /\ imageFile' = unmount.imageFile
  /\ isValid' = unmount.isValid
  /\ lifecycle' = "unmounted"
  /\ last' = [Call("exit", <<>>, "ok") EXCEPT !.before = <<imageFile>>]
  /\ UNCHANGED <<rootDir, blocks, inodes, usedInodes, usedBlocks>>

NextLife ==
  \/ \E failAt \in {"none", "superblock", "bgdt", "root"} : Mount(failAt)
  \/ Unmount
  \/ \E failAt \in {"none", "superblock", "bgdt", "root"} : Enter(failAt)
  \/ Exit
  \/ \E op \in GuardedOps : Property(op)

SpecLife == Init /\ [][NextLife]_vars

----------------------------------------------------------------------------
(* makeDirectory with names that are accepted and names that are rejected *)

\* the names made: blank ones, short ones, and a name one byte longer than
\* _EntryList.append accepts
NextMake ==
  \/ \E name \in {<<>>, <<Space>>, <<Space, Space>>, <<ChA>>, <<ChB>>,
                   <<ChA, ChB>>, [i \in 1..(MaxNameLen + 1) |-> ChA]} :
       MakeDirectory(name)
  \/ Files

SpecMake == InitAppend /\ [][NextMake]_vars

----------------------------------------------------------------------------
(* Iterations over the _EntryList of one directory object, interleaved *)

MaxYield == 5

\* _EntryList.__iter__: sets the attribute _itIndex of the list to 0; the
\* attribute does not exist before the first call
iter(dir) ==
  [f \in (DOMAIN dir) \cup {"itIndex"} |-> IF f = "itIndex" THEN 0 ELSE dir[f]]

\* _EntryList.next: StopIteration at the end of the list, else the entry at
\* _itIndex (0-based), and _itIndex moves on
next(dir) ==
  IF dir.itIndex = Len(dir.entries)
    THEN [stop |-> TRUE, entry |-> NoEntry, dir |-> dir]
    ELSE [stop |-> FALSE, entry |-> dir.entries[dir.itIndex + 1],
          dir |-> [dir EXCEPT !.itIndex = @ + 1]]

\* the loop "for entry in curFile._entryList" of getFileAt after its
\* __iter__: next until the name matches (break) or the list ends
RECURSIVE NextUntilNamed(_, _)
NextUntilNamed(dir, name) ==
  LET Stepped(n) ==
        IF n.stop THEN [found |-> FALSE, dir |-> n.dir]
        ELSE IF n.entry.name = name THEN [found |-> TRUE, dir |-> n.dir]
        ELSE NextUntilNamed(n.dir, name)
  IN  Stepped(next(dir))

\* What getFileAt leaves of the directory object it is called on: each path
\* part iterates its list anew while curFile is that object; after a match
\* curFile is another object
RECURSIVE IteratedBy(_, _, _)
IteratedBy(dir, pathParts, k) ==
  LET Looked(r) == IF r.found THEN r.dir ELSE IteratedBy(r.dir, pathParts, k + 1)
  IN  IF k > Len(pathParts) THEN dir
      ELSE Looked(NextUntilNamed(iter(dir), pathParts[k]))

\* the generators 1 and 2 made by files() on the root directory object:
\* where each stands and what it has yielded
Position(g) == IF Len(last.args) = 0 THEN "none" ELSE last.args[g]
Yielded(g) == IF g = 1 THEN last.listing ELSE last.after

\* self.files() called: a generator is made, none of its body has run
StartFiles(g) ==
  /\ rootDir # NoObject
  /\ Position(g) = "none"
  /\ last' = [last EXCEPT
                !.op = "files()",
                !.args = [h \in 1..2 |-> IF h = g THEN "created" ELSE Position(h)]]
  /\ UNCHANGED <<imageFile, isValid, rootDir, lifecycle, blocks, inodes,
                 usedInodes, usedBlocks>>

\* next() of generator g: the body of files() runs to its next yield; the
\* first call enters the for loop, which calls __iter__
NextFile(g) ==
  LET Moved(position, yielded, dir) ==
        /\ rootDir' = dir
        /\ last' = [last EXCEPT
                      !.op = "next",
                      !.args = [h \in 1..2 |-> IF h = g THEN position ELSE Position(h)],
                      !.listing = IF g = 1 THEN yielded ELSE @,
                      !.after = IF g = 2 THEN yielded ELSE @]
      Opened(n, f) ==
        IF f.status # "ok" THEN Moved("done", Yielded(g), n.dir)
        ELSE Moved("running",
                   Append(Yielded(g), [name |-> f.name, inodeNum |-> f.inodeNum]),
                   n.dir)
      Stepped(n) ==
        IF n.stop THEN Moved("done", Yielded(g), n.dir)
        ELSE Opened(n, openEntry(ThisFs, n.entry.name, n.entry.inodeNum))
  IN  /\ Position(g) \in {"created", "running"}
      /\ Len(Yielded(g)) < MaxYield
      /\ Stepped(next(IF Position(g) = "created" THEN iter(rootDir) ELSE rootDir))
      /\ UNCHANGED <<imageFile, isValid, lifecycle, blocks, inodes, usedInodes,
                     usedBlocks>>

\* rootDir.getFileAt(path), called between two next() of the generators
LookUp(path) ==
  /\ rootDir # NoObject
  /\ Len(FileAtParts(path)) > 0
  /\ rootDir' = IteratedBy(rootDir, FileAtParts(path), 1)
  /\ last' = [last EXCEPT
                !.op = "getFileAt", !.path = path,
                !.args = [h \in 1..2 |-> Position(h)],
                !.status = getFileAt(ThisFs, rootDir, path).status]
  /\ UNCHANGED <<imageFile, isValid, lifecycle, blocks, inodes, usedInodes,
                 usedBlocks>>

NextIter ==
  \/ \E g \in 1..2 : StartFiles(g)
  \/ \E g \in 1..2 : NextFile(g)
  \/ \E path \in {<<ChA>>, <<ChB>>, <<Dot>>} : LookUp(path)

SpecIter == InitAppend /\ [][NextIter]_vars

----------------------------------------------------------------------------
(* Properties *)

IsComponent(part) == part # <<>>

\* the components of a path: its non-empty parts between "/"
Components(path) == SelectSeq(Split(path), IsComponent)

\* TRUE when, resolving parts[k..] one entry at a time from directory dir,
\* some component is not the name of an entry of the directory reached so far
RECURSIVE MissingFrom(_, _, _, _)
MissingFrom(fs, dir, parts, k) ==
  LET Into(f) == f.status = "ok" /\ MissingFrom(fs, f, parts, k + 1)
      At(j) ==
        IF j = 0 THEN TRUE
        ELSE Into(openEntry(fs, dir.entries[j].name, dir.entries[j].inodeNum))
  IN  IF k > Len(parts) THEN FALSE
      ELSE IF ~dir.isDir THEN FALSE
      ELSE At(FirstNamed(dir.entries, parts[k], 1))

Resolutions == {"getFile", "getFileAt"}

\* C1: on a mounted filesystem, a resolution (getFile, getFileAt) of a path
\* with a component that is not an entry of the directory reached by the
\* components before it raises FileNotFoundError and returns no file object.
MissingComponentFails ==
  (/\ last.op \in Resolutions
   /\ isValid
   /\ MissingFrom(ThisFs, rootDir, Components(last.path), 1))
  => last.status = "FileNotFoundError"

\* C2: a mount in which reading the superblock, reading the BGDT or building
\* the root directory fails raises InvalidImageFormatError and leaves isValid
\* false and the image file handle closed and cleared.
MountFailureUnmounts ==
  (last.op = "mount" /\ last.msg \in {"superblock", "bgdt", "root"})
  => /\ last.status = "InvalidImageFormatError"
     /\ ~isValid
     /\ imageFile = "None"

\* a mount fails at the root directory, after _isValid had been set
MountFailedAtRoot ==
  /\ last.op = "mount"
  /\ last.msg = "root"
  /\ last.status = "InvalidImageFormatError"
  /\ lifecycle = "mountFailed"

\* C3: when the last lifecycle call was unmount, or no mount has succeeded,
\* each guarded property or scan and getFile fails instead of returning a
\* value; after a later successful mount they return again.
GuardedOpsNeedMount ==
  last.op \in (GuardedOps \cup {"getFile"})
  => /\ lifecycle \in {"new", "mountFailed", "unmounted"}
          => last.status = "AssertionError"
     /\ lifecycle \in {"mounted", "remounted"}
          => /\ last.status # "AssertionError"
             /\ last.op \in GuardedOps => last.status = "ok"

\* a guarded operation is refused on a filesystem that was mounted and then
\* unmounted
GuardedOpAfterUnmount ==
  /\ lifecycle = "unmounted"
  /\ rootDir # NoObject
  /\ last.op = "totalSpace"
  /\ last.status = "AssertionError"

WriteTags ==
  {"inodeBitmap", "inode:init", "blockBitmap", "block:zero", "inode:block",
   "inode:size", "inode:numLinks", "block:entry", "entry:recordLength",
   "block:default"}

\* the log entries of writes attempted on a closed device
ClosedWrites == {"closed:" \o what : what \in WriteTags}

\* C4: after unmount, files(), getFileAt(p) for every p and makeDirectory on
\* the directory object obtained while mounted fail instead of returning a
\* result, and attempt no write on the closed device.
HeldDirectoryFailsAfterUnmount ==
  (lifecycle = "unmounted" /\ last.op \in {"files", "getFileAt", "makeDirectory"})
  => /\ last.status # "ok"
     /\ \A i \in 1..Len(last.log) : last.log[i] \notin ClosedWrites

\* C5: the directory a successful makeDirectory returns lists exactly "."
\* with the new directory's inode and ".." with the inode of the directory
\* that holds the new entry.
NewDirectoryListsDotEntries ==
  (last.op = "makeDirectory" /\ last.status = "ok")
  => last.listing = << [name |-> <<Dot>>, inodeNum |-> last.inodeNum],
                       [name |-> <<Dot, Dot>>, inodeNum |-> last.holder] >>

\* C6: after a successful append of (name, inodeNum), iterating the entry
\* list in memory, and the entry list built again from the device, yields
\* the entries from before the append in order followed by the new entry.
AppendThenIterate ==
  (last.op = "append" /\ last.status = "ok")
  => /\ last.listing =
          Append(last.before, [name |-> last.path, inodeNum |-> last.inodeNum])
     /\ last.rebuilt = [status |-> "ok", listing |-> last.listing]

\* the file object kind the type nibble of a mode stands for
KindOfNibble(mode) ==
  IF mode \div 4096 = 4 THEN "Directory"
  ELSE IF mode \div 4096 = 8 THEN "Regular"
  ELSE IF mode \div 4096 = 10 THEN "Symlink"
  ELSE "Other"

\* C7: opening an entry yields a Directory iff (mode & 0xF000) = 0x4000, a
\* Regular file iff 0x8000, a Symlink iff 0xA000, the generic file object
\* for every other type nibble.
KindFollowsTypeNibble ==
  (last.op = "getFileAt" /\ last.status = "ok" /\ last.inodeNum = FirstInode)
  => last.kind = KindOfNibble(inodes[FirstInode].mode % 65536)

HasSlash(path) == \E i \in 1..Len(path) : path[i] = Slash

\* C8: creating a directory under a name an entry of the target directory
\* already has fails with FileAlreadyExistsError, in makeDirectory and in
\* makeDirFile.
ExistingNameFailsAlreadyExists ==
  /\ (/\ last.op = "makeDirectory"
      /\ last.status # "ok"
      /\ ~HasSlash(last.path)
      /\ FirstNamed(rootDir.entries, last.path, 1) # 0)
     => last.status = "FileAlreadyExistsError"
  /\ (/\ last.op = "makeDirFile"
      /\ isValid
      /\ ~MissingFrom(ThisFs, rootDir, Components(last.path), 1)
      /\ Len(last.path) > 0
      /\ last.path[1] = Slash
      /\ Components(last.path) # <<>>)
     => last.status = "FileAlreadyExistsError"

\* C9: getFile("") and getFileAt("") on a mounted filesystem raise
\* FileNotFoundError and return no file object.
EmptyPathFails ==
  (last.op \in Resolutions /\ isValid /\ last.path = <<>>)
  => last.status = "FileNotFoundError"

\* a path with every run of "/" replaced by one "/"
RECURSIVE Squeeze(_)
Squeeze(path) ==
  IF Len(path) < 2 THEN path
  ELSE IF path[1] = Slash /\ path[2] = Slash THEN Squeeze(Tail(path))
  ELSE <<path[1]>> \o Squeeze(Tail(path))

\* q is p with each "/" replaced by one or more, and perhaps a trailing "/"
LongerSlashRuns(p, q) == Squeeze(q) \in {Squeeze(p), Squeeze(p \o <<Slash>>)}

\* the outcome of the resolution op on path in the present state
Outcome(op, path) ==
  IF op = "getFileAt" THEN Returned(op, path, getFileAt(ThisFs, rootDir, path))
  ELSE IF assertValid # "ok" THEN Call(op, path, assertValid)
  ELSE Returned(op, path, getFile(ThisFs, rootDir, path))

\* C10: resolving a path q got from p by lengthening runs of "/" or adding a
\* trailing "/" has the outcome of resolving p: the same inode number or the
\* same error.
SlashRunsInsensitive ==
  last.op \in Resolutions
  => \A q \in Paths :
       LongerSlashRuns(last.path, q)
       => [Outcome(last.op, q) EXCEPT !.path = last.path] = last

\* a path with a run of "/" has resolved to a file
ResolvedThroughSlashRuns ==
  /\ last.op = "getFile"
  /\ last.path = <<Slash, Slash, ChB>>
  /\ last.status = "ok"
  /\ last.inodeNum # RootInode

\* C12: device.read(pos, n) on a mounted device returns exactly n bytes, or
\* fails with Truncated when fewer than n bytes lie between pos and the end
\* of the device; it never returns fewer than n bytes.
ReadExactOrTruncated ==
  last.op = "read"
  => \/ last.status = "ok" /\ Len(last.bytes) = last.args[2]
     \/ last.status = "Truncated" /\ DeviceSize - last.args[1] < last.args[2]

\* C20: readInode(n) fails for every n outside 1..numInodes and returns no
\* record read from another inode's slot.
ImpossibleInodeFails ==
  (last.op = "readInode" /\ last.args[1] \notin 1..NumInodes)
  => last.status # "ok"

\* the ids firstId + g * perGroup + 8 * b + i of the bits set in the bitmaps,
\* in order of group, byte and bit
BitIds(bitmaps, firstId) ==
  LET Ids == {firstId + k : k \in {k \in 0..(Len(bitmaps) * PerGroup - 1) :
                BitSet(bitmaps[(k \div PerGroup) + 1][((k % PerGroup) \div 8) + 1],
                       k % 8)}}
  IN  Ids

SetOf(seq) == {seq[i] : i \in 1..Len(seq)}

IsIncreasing(seq) == \A i \in 1..(Len(seq) - 1) : seq[i] < seq[i + 1]

\* C19: the used-block scan maps bit i of byte b of group g's block bitmap
\* to block id firstDataBlock + g * numBlocksPerGroup + 8 * b + i, for
\* firstDataBlock = 1 and for firstDataBlock = 0.
UsedBlocksFollowFirstDataBlock ==
  last.op = "getUsedBlocks"
  => /\ SetOf(last.listing) = BitIds(last.before, last.args[1])
     /\ IsIncreasing(last.listing)

\* C13: after a successful allocateInode exactly the bit of the returned
\* inode number has gone from 0 to 1 in the inode bitmap, the group's and
\* the superblock's numFreeInodes are one less, and the group's
\* numDirectories is one more iff the inode is for a directory.
AllocateInodeUpdatesCounters ==
  (last.op = "allocateInode" /\ last.status = "ok")
  => /\ last.inodeNum \in 1..(NumGroups * PerGroup)
     /\ last.inodeNum \notin BitIds(last.before.bitmaps, 1)
     /\ BitIds(last.after.bitmaps, 1) =
          BitIds(last.before.bitmaps, 1) \cup {last.inodeNum}
     /\ last.after.superblockFree = last.before.superblockFree - 1
     /\ \A g \in 1..NumGroups :
          LET Owns == (last.inodeNum - 1) \div PerGroup = g - 1
          IN  /\ last.after.numFree[g] =
                   last.before.numFree[g] - (IF Owns THEN 1 ELSE 0)
              /\ last.after.numDirectories[g] =
                   last.before.numDirectories[g]
                   + (IF Owns /\ last.args[1] THEN 1 ELSE 0)

\* the sum of the record lengths of the entries of a directory block, read
\* one record after the other from offset on
RECURSIVE RecordLengthSum(_, _)
RecordLengthSum(bytes, offset) ==
  LET Record(size) ==
        IF size = 0 THEN 0 ELSE size + RecordLengthSum(bytes, offset + size)
  IN  IF offset + 8 > Len(bytes) THEN 0
      ELSE Record(UnpackLE(bytes, offset + 4, 2))

\* the inodes marked used that are directories
DirectoryInodes == {n \in usedInodes : OpenKind(inodes[n].mode) = "Directory"}

\* C14: after a makeDirectory the record lengths in every block of every
\* directory (the block appended to, a block append attached, the first
\* block of the new directory) sum to blockSize.
RecordLengthsFillBlocks ==
  (last.op = "makeDirectory" /\ last.status = "ok")
  => \A n \in DirectoryInodes :
       \A i \in 1..Len(inodes[n].block) :
         RecordLengthSum(blocks[inodes[n].block[i]], 0) = blockSize

\* C17: in an append that attaches a new block, the new entry's bytes are
\* written to the block before the directory inode's size is written.
EntryWrittenBeforeSize ==
  (last.op = "append" /\ last.status = "ok" /\ "inode:size" \in SetOf(last.log))
  => \E i, j \in 1..Len(last.log) :
       /\ last.log[i] = "block:entry"
       /\ last.log[j] = "inode:size"
       /\ i < j

\* C15: building the entry list of a directory terminates for every content
\* of its blocks, also at an entry whose recordLength is 0 and whose
\* inodeNum is not.
EntryListTerminates ==
  last.op = "entryList" => last.rebuilt.status # "hang"

\* the live entries of a block from offset on: records are passed by their
\* record length, those with inodeNum 0 are left out
RECURSIVE LiveInBlock(_, _)
LiveInBlock(bytes, offset) ==
  LET Record(r) ==
        IF ~r.ok \/ r.e.size = 0 THEN <<>>
        ELSE (IF r.e.inodeNum = 0 THEN <<>>
              ELSE <<[name |-> r.e.name, inodeNum |-> r.e.inodeNum]>>)
             \o LiveInBlock(bytes, offset + r.e.size)
  IN  IF offset >= Len(bytes) THEN <<>>
      ELSE Record(Entry(0, 0, offset, SliceFrom(bytes, offset)))

\* the live entries of all blocks of an inode, from its i-th block on
RECURSIVE LiveEntries(_, _)
LiveEntries(inode, i) ==
  IF i > Len(inode.block) THEN <<>>
  ELSE LiveInBlock(blocks[inode.block[i]], 0) \o LiveEntries(inode, i + 1)

\* C16: iterating a directory yields every entry with inodeNum # 0 of all
\* its blocks in on-disk order; an entry with inodeNum 0 is skipped and the
\* entries after it are still yielded.
DeletedEntriesSkipped ==
  (last.op = "entryList" /\ last.rebuilt.status = "ok")
  => last.rebuilt.listing = LiveEntries(inodes[last.args[1]], 1)

\* C11: checkIntegrity and scanBlockGroups return a report on every mounted
\* image whose bitmaps are read in full: an entry whose inode number lies
\* outside every block group is reported or skipped, the scan does not raise.
ScansReturnReport ==
  (last.op \in {"checkIntegrity", "scanBlockGroups"} /\ isValid
     /\ last.args = <<"none">>)
    => last.status = "ok"

\* the inodes the entries of the directory inode n name, "." and ".." aside
NamedBy(n) ==
  IF OpenKind(inodes[n].mode) # "Directory" THEN {}
  ELSE {e.inodeNum : e \in {d \in SetOf(LiveEntries(inodes[n], 1)) :
                              ~IsDotName(d.name)}} \cap (1..NumInodes)

RECURSIVE ReachedFrom(_, _)
ReachedFrom(S, k) ==
  IF k = 0 THEN S
  ELSE ReachedFrom(S \cup UNION {NamedBy(n) : n \in S}, k - 1)

\* the inodes some directory entry below the root leads to
ReachableInodes == ReachedFrom(NamedBy(RootInode), NumInodes)

\* the reachable inodes whose block list holds the block bid
Referencing(bid) == {n \in ReachableInodes : bid \in SetOf(inodes[n].block)}

BothMessagesFor(bid) ==
  {i \in 1..Len(last.messages) :
     last.messages[i].kind = "referencedByBoth" /\ last.messages[i].bid = bid}

\* C18: checkIntegrity reports a block as referenced by both exactly when
\* two different inodes reference it; a file reached through several hard
\* links, whose blocks no other inode references, gets no such message.
ReferencedByBothNeedsTwoInodes ==
  (last.op = "checkIntegrity" /\ last.status = "ok")
    => \A bid \in 1..(NumBlocks - 1) :
         (BothMessagesFor(bid) # {}) <=> (Cardinality(Referencing(bid)) >= 2)

\* the fields of the disk and the image, the bookkeeping of the calls aside
diskState == <<imageFile, isValid, rootDir, blocks, inodes, usedInodes, usedBlocks>>

\* C21: between the calls of any sequence of mount (succeeding or failing),
\* unmount and with-block entry and exit, isValid is true exactly when the
\* image file is open, and the root directory is set whenever isValid is
\* true; unmount or a with-block exit on an unmounted disk changes nothing.
LifecycleConsistent ==
  /\ [](/\ isValid <=> (imageFile = "open")
        /\ isValid => rootDir # NoObject)
  /\ [][(imageFile = "None" /\ last'.op \in {"unmount", "exit"})
          => UNCHANGED diskState]_vars

\* a with-block left on a disk that was mounted once and is unmounted already
ExitWhenUnmounted ==
  last.op = "exit" /\ last.before = <<"None">> /\ rootDir # NoObject

\* the reasons makeDirectory rejects a name for
NameRejected ==
  \/ IsBlank(last.path)
  \/ Len(last.path) > MaxNameLen
  \/ last.msg = "An entry with that name already exists."

\* C22: when makeDirectory fails because the name is empty or blank, names
\* an existing entry or is longer than 255 bytes, no inode and no block has
\* been allocated and no byte of the device has been written.
RejectedNameChangesNothing ==
  (last.op = "makeDirectory" /\ last.status = "FilesystemError" /\ NameRejected)
    => last.log = <<>>

IsPrefix(short, long) ==
  Len(short) <= Len(long) /\ short = SubSeq(long, 1, Len(short))

\* C23: iterations over the entries of one directory object that are
\* interleaved with each other or with a getFileAt on it each yield the
\* entries in order, once: a generator's yields are a prefix of the entry
\* list, and the whole list once it has ended.
InterleavedIterationsComplete ==
  \A g \in 1..2 :
    Position(g) \in {"running", "done"}
      => /\ IsPrefix(Yielded(g), Listing(rootDir.entries))
         /\ Position(g) = "done" => Yielded(g) = Listing(rootDir.entries)

\* C24: the breadth-first walks of scanBlockGroups and checkIntegrity end on
\* every image, also when an entry other than "." and ".." names its own
\* directory or an ancestor of it.
WalksTerminate ==
  last.op \in {"checkIntegrity", "scanBlockGroups"} => last.status # "hang"

====
